---- MODULE Spec2Model ----
(***************************************************************************)
(* Host side of the F-Ramune serial protocol (software/framune.py): the    *)
(* one-byte command handshake, the version query, the chip negotiation     *)
(* and the MemoryChip byte codec, run against a serial line whose peer     *)
(* (the bridge) answers on its own schedule.                               *)
(***************************************************************************)
EXTENDS Integers, Sequences, FiniteSets, TLC

VARIABLES
    pc,          \* position of the host program / of the call in progress
    op,          \* the public operation in progress or last finished
    command,     \* the command code handed to _command
    req,         \* the MemoryChip handed to the chip setter
    chip,        \* Framune._chip
    chip0,       \* history: Framune._chip when the operation was called
    log,         \* history: the transport events of the operation, in order
    outcome,     \* how the operation ended: running, ok, or the error raised
    retval,      \* what get_version or version_matches returned (None until then)
    serialOpen,  \* whether the Serial object of the session is open
    rx,          \* bytes that arrived at the host and were not read yet
    wire,        \* bytes the peer sent that did not arrive yet
    tx,          \* bytes the host wrote that the peer did not consume yet
    peer,        \* the bridge: its protocol state
    peerVersion, \* the protocol version the bridge reports
    knownBytes,  \* the bytes of the first read of _set_and_analyze_chip
    nops,        \* number of operations called so far
    prev,        \* history: the operation called before this one, its outcome, and
                 \* whether every operation before that one succeeded
    cd,          \* codec check: the descriptor under test
    cstage,      \* codec check: fresh, encoded, decoded
    cknown,      \* codec check: the known-mask bytes
    cvalues,     \* codec check: the value-block bytes
    cout         \* codec check: the decoded descriptor

hostVars  == <<pc, op, command, req, chip, chip0, log, outcome, retval, serialOpen,
               knownBytes, nops, prev>>
lineVars  == <<rx, wire, tx, peer, peerVersion>>
codecVars == <<cd, cstage, cknown, cvalues, cout>>
vars      == <<hostVars, lineVars, codecVars>>

----------------------------------------------------------------------------
(* Bounds of the model *)

\* operations one session may call
MaxOps == 2

----------------------------------------------------------------------------
(* Module constants of framune.py *)

PROTOCOL_VERSION == 0
MEMORY_CHIP_DATA_STRUCTURE_SIZE == 7
MEMORY_CHIP_KNOWN_DATA_STRUCTURE_SIZE == 4

\* the OrderedDict's keys, in order
MEMORY_CHIP_DATA_STRUCTURE == <<"is_operational", "size", "is_nonvolatile", "is_eeprom">>

\* Python's None, and a value that is not None; an attribute is one or the other
None == <<>>
Some(v) == <<v>>
Val(x) == x[1]

\* MemoryChip(is_operational, size, is_nonvolatile, is_eeprom)
MemoryChip(o, s, n, e) ==
    [is_operational |-> o, size |-> s, is_nonvolatile |-> n, is_eeprom |-> e]

\* Framune.__init__: self._chip = MemoryChip(None, None, None, None)
EmptyChip == MemoryChip(None, None, None, None)

----------------------------------------------------------------------------
(* struct.pack / struct.unpack with ENDIANNESS '>' *)

\* '?' packs any truthy value as 1 and any falsy value as 0
PackBool(truthy) == IF truthy THEN 1 ELSE 0
\* mutant: only the byte 1 counts as True
UnpackBool_OnlyOne(b) == b = 1

\* '?' unpacks any nonzero byte as True
UnpackBool(b) == b # 0

\* 'I' accepts 0 .. 2^32-1 and raises struct.error otherwise
FitsU32(n) == n >= 0 /\ (n \div 65536) < 65536
\* mutant: '<I', least significant byte first
PackU32_Little(n) ==
    << n % 256, (n \div 256) % 256, (n \div 65536) % 256, (n \div 16777216) % 256 >>

\* '>I': four bytes, most significant first
PackU32(n) ==
    << (n \div 16777216) % 256, (n \div 65536) % 256, (n \div 256) % 256, n % 256 >>
UnpackU32(b) == b[1] * 16777216 + b[2] * 65536 + b[3] * 256 + b[4]
\* mutant: '<H', least significant byte first
UnpackU16_Little(b) == b[2] * 256 + b[1]

\* '>H': two bytes, most significant first
UnpackU16(b) == b[1] * 256 + b[2]

\* `getattr(self, attr) or 0` as struct.pack('?') sees it: truthy or not
BoolOrZero(x) == IF x = None THEN FALSE ELSE Val(x)
\* `getattr(self, 'size') or 0`
SizeOrZero(x) == IF x = None THEN 0 ELSE Val(x)

\* mutant: int(bool(attr)) in place of int(attr is not None)
KnownStatusToBytes_Truthy(c) ==
    [i \in 1..MEMORY_CHIP_KNOWN_DATA_STRUCTURE_SIZE |->
        LET x == c[MEMORY_CHIP_DATA_STRUCTURE[i]]
        IN  IF x = None THEN 0
            ELSE IF i = 2 THEN (IF Val(x) # 0 THEN 1 ELSE 0)
            ELSE (IF Val(x) THEN 1 ELSE 0)]

\* MemoryChip.known_status_to_bytes: int(attr is not None) per field
KnownStatusToBytes(c) ==
    [i \in 1..MEMORY_CHIP_KNOWN_DATA_STRUCTURE_SIZE |->
        IF c[MEMORY_CHIP_DATA_STRUCTURE[i]] # None THEN 1 ELSE 0]

\* MemoryChip.to_bytes raises struct.error when size does not fit 'I'
ToBytesRaises(c) == ~FitsU32(SizeOrZero(c.size))
\* MemoryChip.to_bytes: struct.pack('>?I??', ...)
ToBytes(c) ==
    <<PackBool(BoolOrZero(c.is_operational))>>
    \o PackU32(SizeOrZero(c.size))
    \o <<PackBool(BoolOrZero(c.is_nonvolatile)), PackBool(BoolOrZero(c.is_eeprom))>>

\* MemoryChip.from_bytes: v if is_known else None, per field
FromBytes(known, properties) ==
    LET k == [i \in 1..4 |-> UnpackBool(known[i])]
        o == UnpackBool(properties[1])
        s == UnpackU32(SubSeq(properties, 2, 5))
        n == UnpackBool(properties[6])
        e == UnpackBool(properties[7])
    IN  MemoryChip(IF k[1] THEN Some(o) ELSE None,
                   IF k[2] THEN Some(s) ELSE None,
                   IF k[3] THEN Some(n) ELSE None,
                   IF k[4] THEN Some(e) ELSE None)

----------------------------------------------------------------------------
(* Inputs the model draws from *)

\* descriptors a caller hands to the chip setter
Requests ==
    { MemoryChip(Some(TRUE), None, Some(TRUE), None),
      MemoryChip(Some(FALSE), Some(258), None, Some(FALSE)),
      MemoryChip(None, Some(-1), None, None) }

\* versions a bridge may report
PeerVersions == {0, 1}

\* bytes line noise may put in place of an echo
NoiseBytes == {2}

\* answers of a bridge: a known-mask and a value block
Responses ==
    { << <<1, 1, 1, 1>>, <<2, 0, 0, 1, 2, 1, 0>> >>,
      << <<0, 2, 0, 1>>, <<1, 0, 0, 0, 7, 1, 0>> >> }

----------------------------------------------------------------------------
(* The transport: pySerial's write and read with a timeout *)

Wr(d) == [k |-> "w", n |-> Len(d), d |-> d]
Rd(n, d) == [k |-> "r", n |-> n, d |-> d]

\* Serial.read(length): length bytes as soon as they are there, otherwise
\* what arrived when the timeout expires
ReadData(length) == IF Len(rx) >= length THEN SubSeq(rx, 1, length) ELSE rx
ReadRest(length) == IF Len(rx) >= length THEN SubSeq(rx, length + 1, Len(rx)) ELSE <<>>

\* mutant: _read hands back whatever arrived and never raises
TimedOut_Never(length, data) == FALSE

\* mutant: only an empty read counts as a timeout
TimedOut_OnlyEmpty(length, data) == Len(data) = 0

\* Framune._read: `if len(data) < length: raise TimeoutError`
TimedOut(length, data) == Len(data) < length

\* struct.unpack raises struct.error unless the buffer has the format's size
UnpackRaises(size, data) == Len(data) # size

\* how an operation ends: the public call returns or raises
Return(how) ==
    /\ outcome' = how
    /\ pc' = "idle"

\* Framune._read(length), seen from the operation that called it
Read(length) ==
    /\ rx' = ReadRest(length)
    /\ log' = Append(log, Rd(length, ReadData(length)))

\* the call of a public operation, up to _command's first write
Call(name, code, c) ==
    /\ pc = "idle"
    /\ nops < MaxOps
    /\ nops' = nops + 1
    /\ prev' = <<op, outcome, prev[3] /\ outcome \in {"none", "ok"}>>
    /\ op' = name
    /\ command' = code
    /\ req' = c
    /\ chip0' = chip
    /\ outcome' = "running"
    /\ retval' = None
    /\ knownBytes' = <<>>
    /\ log' = <<Wr(<<code>>)>>
    /\ tx' = tx \o <<code>>
    /\ pc' = "echo"
    /\ UNCHANGED <<chip, serialOpen, rx, wire, peer, peerVersion, codecVars>>

----------------------------------------------------------------------------
(* Framune *)

\* Framune.__init__ on a port name: open the port, start with an empty chip
Construct ==
    /\ pc = "start"
    /\ serialOpen' = TRUE
    /\ chip' = EmptyChip
    /\ pc' = "idle"
    /\ UNCHANGED <<op, command, req, chip0, log, outcome, retval, knownBytes, nops,
                   prev, lineVars, codecVars>>

\* Framune.get_version, entered: _command(0x00) writes the command byte
GetVersion == Call("get_version", 0, EmptyChip)

\* the chip setter, entered: _command(0x01) writes the command byte
SetChip == \E c \in Requests : Call("set_chip", 1, c)

\* Framune.version_matches, entered: it calls get_version at once
VersionMatches == Call("version_matches", 0, EmptyChip)

\* mutant: the comparison negated
MatchesProtocol_Negated(version) == version # PROTOCOL_VERSION

\* Framune.version_matches: self.get_version() == PROTOCOL_VERSION
MatchesProtocol(version) == version = PROTOCOL_VERSION

\* what the caller gets once get_version has its version: the version, or
\* through version_matches the comparison
Returned(version) == IF op = "version_matches" THEN MatchesProtocol(version) ELSE version

\* where the operation goes on after _command returned
AfterCommand == IF op = "set_chip" THEN "send" ELSE "version"

\* mutant: the deny branch forgets to raise
EchoMatches_Always(echo) == TRUE

\* Framune._command: `if self._read_byte() == command`
EchoMatches(echo) == echo = command

\* mutant: confirm and deny bytes swapped
AckByte_Swapped(echo) == IF echo = command THEN 1 ELSE 0

\* Framune._command: confirm with 0x00, deny with 0x01
AckByte(echo) == IF echo = command THEN 0 ELSE 1

\* Framune._command from its read on: compare the echo, confirm or deny
CommandEcho ==
    /\ pc = "echo"
    /\ LET data == ReadData(1)
       IN  IF TimedOut(1, data)
              THEN Read(1) /\ tx' = tx /\ Return("TimeoutError")
           ELSE IF UnpackRaises(1, data)
              THEN Read(1) /\ tx' = tx /\ Return("struct.error")
           ELSE /\ rx' = ReadRest(1)
                /\ log' = log \o <<Rd(1, data), Wr(<<AckByte(data[1])>>)>>
                /\ tx' = tx \o <<AckByte(data[1])>>
                /\ IF EchoMatches(data[1])
                      THEN pc' = AfterCommand /\ outcome' = outcome
                      ELSE Return("ConnectionError")
    /\ UNCHANGED <<op, command, req, chip, chip0, retval, serialOpen, knownBytes, nops,
                   prev, wire, peer, peerVersion, codecVars>>

\* mutant: get_version starts the session over once the version is read
ReadVersion_ResetsChip ==
    /\ pc = "version"
    /\ Read(2)
    /\ LET data == ReadData(2)
       IN  IF TimedOut(2, data)
              THEN retval' = retval /\ chip' = chip /\ Return("TimeoutError")
           ELSE IF UnpackRaises(2, data)
              THEN retval' = retval /\ chip' = chip /\ Return("struct.error")
           ELSE retval' = Some(Returned(UnpackU16(data))) /\ chip' = EmptyChip /\ Return("ok")
    /\ UNCHANGED <<op, command, req, chip0, serialOpen, knownBytes, nops,
                   prev, wire, tx, peer, peerVersion, codecVars>>

\* mutant: get_version reads the version with _read_byte
ReadVersion_OneByte ==
    /\ pc = "version"
    /\ Read(1)
    /\ LET data == ReadData(1)
       IN  IF TimedOut(1, data)
              THEN retval' = retval /\ Return("TimeoutError")
           ELSE IF UnpackRaises(1, data)
              THEN retval' = retval /\ Return("struct.error")
           ELSE retval' = Some(Returned(data[1])) /\ Return("ok")
    /\ UNCHANGED <<op, command, req, chip, chip0, serialOpen, knownBytes, nops,
                   prev, wire, tx, peer, peerVersion, codecVars>>

\* Framune.get_version after _command: return self._read_uint16()
ReadVersion ==
    /\ pc = "version"
    /\ Read(2)
    /\ LET data == ReadData(2)
       IN  IF TimedOut(2, data)
              THEN retval' = retval /\ Return("TimeoutError")
           ELSE IF UnpackRaises(2, data)
              THEN retval' = retval /\ Return("struct.error")
           ELSE retval' = Some(Returned(UnpackU16(data))) /\ Return("ok")
    /\ UNCHANGED <<op, command, req, chip, chip0, serialOpen, knownBytes, nops,
                   prev, wire, tx, peer, peerVersion, codecVars>>

\* mutant: the value block is written before the known-mask
SendChip_ValuesFirst ==
    /\ pc = "send"
    /\ IF ToBytesRaises(req)
          THEN /\ log' = log
               /\ tx' = tx
               /\ Return("struct.error")
          ELSE /\ log' = log \o <<Wr(ToBytes(req)), Wr(KnownStatusToBytes(req))>>
               /\ tx' = tx \o ToBytes(req) \o KnownStatusToBytes(req)
               /\ pc' = "known"
               /\ outcome' = outcome
    /\ UNCHANGED <<op, command, req, chip, chip0, retval, serialOpen, knownBytes, nops,
                   prev, rx, wire, peer, peerVersion, codecVars>>

\* Framune._set_and_analyze_chip after _command: the two writes
SendChip ==
    /\ pc = "send"
    /\ IF ToBytesRaises(req)
          THEN /\ log' = Append(log, Wr(KnownStatusToBytes(req)))
               /\ tx' = tx \o KnownStatusToBytes(req)
               /\ Return("struct.error")
          ELSE /\ log' = log \o <<Wr(KnownStatusToBytes(req)), Wr(ToBytes(req))>>
               /\ tx' = tx \o KnownStatusToBytes(req) \o ToBytes(req)
               /\ pc' = "known"
               /\ outcome' = outcome
    /\ UNCHANGED <<op, command, req, chip, chip0, retval, serialOpen, knownBytes, nops,
                   prev, rx, wire, peer, peerVersion, codecVars>>

\* mutant: the known-mask is applied to self._chip as soon as it is read
ReadKnown_Partial ==
    /\ pc = "known"
    /\ Read(MEMORY_CHIP_KNOWN_DATA_STRUCTURE_SIZE)
    /\ LET data == ReadData(MEMORY_CHIP_KNOWN_DATA_STRUCTURE_SIZE)
       IN  IF TimedOut(MEMORY_CHIP_KNOWN_DATA_STRUCTURE_SIZE, data)
              THEN knownBytes' = knownBytes /\ chip' = chip /\ Return("TimeoutError")
              ELSE /\ knownBytes' = data
                   /\ chip' = FromBytes(data, <<0, 0, 0, 0, 0, 0, 0>>)
                   /\ pc' = "properties"
                   /\ outcome' = outcome
    /\ UNCHANGED <<op, command, req, chip0, retval, serialOpen, nops,
                   prev, wire, tx, peer, peerVersion, codecVars>>

\* ... the first argument of from_bytes: self._read(4)
ReadKnown ==
    /\ pc = "known"
    /\ Read(MEMORY_CHIP_KNOWN_DATA_STRUCTURE_SIZE)
    /\ LET data == ReadData(MEMORY_CHIP_KNOWN_DATA_STRUCTURE_SIZE)
       IN  IF TimedOut(MEMORY_CHIP_KNOWN_DATA_STRUCTURE_SIZE, data)
              THEN knownBytes' = knownBytes /\ Return("TimeoutError")
              ELSE knownBytes' = data /\ pc' = "properties" /\ outcome' = outcome
    /\ UNCHANGED <<op, command, req, chip, chip0, retval, serialOpen, nops,
                   prev, wire, tx, peer, peerVersion, codecVars>>

\* mutant: fields the bridge reports unknown keep their old value
Installed_Merge(old, requested, kb, pb) ==
    [f \in DOMAIN old |-> IF FromBytes(kb, pb)[f] = None THEN old[f] ELSE FromBytes(kb, pb)[f]]

\* the descriptor _set_and_analyze_chip installs: MemoryChip.from_bytes of
\* the two reads, whatever self._chip and the requested chip are
Installed(old, requested, kb, pb) == FromBytes(kb, pb)

\* ... the second argument, self._read(7), then self._chip = from_bytes(...)
ReadProperties ==
    /\ pc = "properties"
    /\ Read(MEMORY_CHIP_DATA_STRUCTURE_SIZE)
    /\ LET data == ReadData(MEMORY_CHIP_DATA_STRUCTURE_SIZE)
       IN  IF TimedOut(MEMORY_CHIP_DATA_STRUCTURE_SIZE, data)
              THEN chip' = chip /\ Return("TimeoutError")
           ELSE IF \/ UnpackRaises(MEMORY_CHIP_KNOWN_DATA_STRUCTURE_SIZE, knownBytes)
                   \/ UnpackRaises(MEMORY_CHIP_DATA_STRUCTURE_SIZE, data)
              THEN chip' = chip /\ Return("struct.error")
           ELSE chip' = Installed(chip, req, knownBytes, data) /\ Return("ok")
    /\ UNCHANGED <<op, command, req, chip0, retval, serialOpen, knownBytes, nops,
                   prev, wire, tx, peer, peerVersion, codecVars>>

\* arguments a caller hands to read and write
Addresses == {0, 4096}
Lengths == {0, 1, 256}
Payloads == { <<>>, <<0>>, <<1, 2>> }

\* a public operation whose body is `pass`: it returns None at once and
\* touches neither the serial line nor self._chip
Pass(name) ==
    /\ pc = "idle"
    /\ nops < MaxOps
    /\ nops' = nops + 1
    /\ prev' = <<op, outcome, prev[3] /\ outcome \in {"none", "ok"}>>
    /\ op' = name
    /\ chip0' = chip
    /\ log' = <<>>
    /\ retval' = None
    /\ Return("ok")
    /\ UNCHANGED <<command, req, chip, serialOpen, knownBytes, lineVars, codecVars>>

\* Framune.read(address, length)
MemRead == \E address \in Addresses, length \in Lengths : Pass("read")

\* Framune.write(address, data)
MemWrite == \E address \in Addresses, data \in Payloads : Pass("write")

\* attribute assignments a caller may make on the object `framune.chip` gives
AttrWrites == { <<"size", Some(4096)>>, <<"is_operational", None>> }

\* Framune.chip (the getter) returns self._chip itself, a MemoryChip with
\* plain attributes: `framune.chip.size = 4096` writes the session's object
CallerSetAttr ==
    /\ pc = "idle"
    /\ \E w \in AttrWrites : chip' = [chip EXCEPT ![w[1]] = w[2]]
    /\ UNCHANGED <<pc, op, command, req, chip0, log, outcome, retval, serialOpen,
                   knownBytes, nops, prev, lineVars, codecVars>>

----------------------------------------------------------------------------
(* main *)

\* class Framune defines __exit__ and no __enter__
HasEnter == FALSE

\* main up to the construction: without an argument serial_port is unbound
\* and Framune(serial_port) raises before any port is opened
MainStart ==
    /\ pc = "start"
    /\ \E argc \in {0, 1} :
          IF argc = 0
             THEN pc' = "main_raised" /\ UNCHANGED <<serialOpen, chip>>
             ELSE pc' = "main_with" /\ serialOpen' = TRUE /\ chip' = EmptyChip
    /\ UNCHANGED <<op, command, req, chip0, log, outcome, retval, knownBytes, nops,
                   prev, lineVars, codecVars>>

\* `with Framune(serial_port) as framune:` the statement looks up __enter__
\* before the body runs; __exit__ (Framune.close) runs only after an __enter__
MainWith ==
    /\ pc = "main_with"
    /\ IF HasEnter
          THEN pc' = "main_returned" /\ serialOpen' = FALSE
          ELSE pc' = "main_raised" /\ serialOpen' = serialOpen
    /\ UNCHANGED <<op, command, req, chip, chip0, log, outcome, retval, knownBytes, nops,
                   prev, lineVars, codecVars>>

----------------------------------------------------------------------------
(* The serial line and the bridge at its other end *)

\* one byte the bridge sent arrives at the host
Deliver ==
    /\ wire # <<>>
    /\ rx' = Append(rx, Head(wire))
    /\ wire' = Tail(wire)
    /\ UNCHANGED <<hostVars, tx, peer, peerVersion, codecVars>>

\* the bridge takes a command byte and echoes it; noise may change the echo
PeerCommand ==
    /\ peer.st = "command"
    /\ tx # <<>>
    /\ tx' = Tail(tx)
    /\ \E echo \in {Head(tx)} \cup NoiseBytes : wire' = Append(wire, echo)
    /\ peer' = [peer EXCEPT !.st = "ack", !.cmd = Head(tx)]
    /\ UNCHANGED <<hostVars, rx, peerVersion, codecVars>>

\* the bridge takes the confirm or deny byte: on confirm it sends the version
\* (0x00) or waits for the request (0x01)
PeerAck ==
    /\ peer.st = "ack"
    /\ tx # <<>>
    /\ tx' = Tail(tx)
    /\ IF Head(tx) = 0 /\ peer.cmd = 1
          THEN peer' = [peer EXCEPT !.st = "request",
                                    !.need = MEMORY_CHIP_KNOWN_DATA_STRUCTURE_SIZE
                                             + MEMORY_CHIP_DATA_STRUCTURE_SIZE]
          ELSE peer' = [peer EXCEPT !.st = "command", !.cmd = 0]
    /\ IF Head(tx) = 0 /\ peer.cmd = 0
          THEN wire' = wire \o << peerVersion \div 256, peerVersion % 256 >>
          ELSE wire' = wire
    /\ UNCHANGED <<hostVars, rx, peerVersion, codecVars>>

\* the bridge takes the request's bytes and, with the last one, answers with
\* its own known-mask and value block
PeerRequest ==
    /\ peer.st = "request"
    /\ tx # <<>>
    /\ tx' = Tail(tx)
    /\ IF peer.need > 1
          THEN /\ peer' = [peer EXCEPT !.need = @ - 1]
               /\ wire' = wire
          ELSE /\ \E r \in Responses :
                    /\ wire' = wire \o r[1] \o r[2]
                    /\ peer' = [st |-> "command", cmd |-> 0, need |-> 0,
                                sent |-> r[1] \o r[2]]
    /\ UNCHANGED <<hostVars, rx, peerVersion, codecVars>>

----------------------------------------------------------------------------
(* The codec on its own: encode a descriptor, decode the bytes *)

CodecSizes == {0, 1, 258, 16909060, 2147483647, -1}
OptBool == {None, Some(FALSE), Some(TRUE)}
OptSize == {None} \cup {Some(n) : n \in CodecSizes}
Descriptors ==
    { MemoryChip(o, s, n, e) : o \in OptBool, s \in OptSize, n \in OptBool, e \in OptBool }

\* chip.known_status_to_bytes() and chip.to_bytes()
Encode ==
    /\ cstage = "fresh"
    /\ cknown' = KnownStatusToBytes(cd)
    /\ IF ToBytesRaises(cd)
          THEN cstage' = "raised" /\ cvalues' = cvalues
          ELSE cstage' = "encoded" /\ cvalues' = ToBytes(cd)
    /\ UNCHANGED <<cd, cout, hostVars, lineVars>>

\* MemoryChip.from_bytes(known, properties)
Decode ==
    /\ cstage = "encoded"
    /\ cout' = FromBytes(cknown, cvalues)
    /\ cstage' = "decoded"
    /\ UNCHANGED <<cd, cknown, cvalues, hostVars, lineVars>>

\* bytes a bridge may send: known-masks and value blocks, field by field
RawFlags == {0, 1, 255}
RawKnown == { <<a, b, c, d>> : a \in RawFlags, b \in RawFlags, c \in RawFlags, d \in RawFlags }
RawSizes ==
    { <<a, b, c, d>> : a \in {0, 1, 127}, b \in {0, 255}, c \in {0, 255}, d \in {0, 255} }
RawValues ==
    { <<o>> \o s \o <<n, e>> : o \in RawFlags, s \in RawSizes, n \in RawFlags, e \in RawFlags }

\* MemoryChip.from_bytes(known, properties) on bytes as they were received
DecodeReceived ==
    /\ cstage = "received"
    /\ cout' = FromBytes(cknown, cvalues)
    /\ cstage' = "analyzed"
    /\ UNCHANGED <<cd, cknown, cvalues, hostVars, lineVars>>

----------------------------------------------------------------------------
(* Specifications *)

HostInit ==
    /\ pc = "start"
    /\ op = "none"
    /\ command = 0
    /\ req = EmptyChip
    /\ chip = EmptyChip
    /\ chip0 = EmptyChip
    /\ log = <<>>
    /\ outcome = "none"
    /\ retval = None
    /\ serialOpen = FALSE
    /\ knownBytes = <<>>
    /\ nops = 0
    /\ prev = <<"none", "none", TRUE>>
    /\ rx = <<>>
    /\ wire = <<>>
    /\ tx = <<>>
    /\ peer = [st |-> "command", cmd |-> 0, need |-> 0, sent |-> <<>>]

CodecOff ==
    /\ cd = EmptyChip
    /\ cstage = "off"
    /\ cknown = <<>>
    /\ cvalues = <<>>
    /\ cout = EmptyChip

Init ==
    /\ HostInit
    /\ peerVersion \in PeerVersions
    /\ CodecOff

Next ==
    \/ Construct
    \/ GetVersion
    \/ SetChip
    \/ CommandEcho
    \/ ReadVersion
    \/ SendChip
    \/ ReadKnown
    \/ ReadProperties
    \/ MainStart
    \/ MainWith
    \/ Deliver
    \/ PeerCommand
    \/ PeerAck
    \/ PeerRequest

Spec == Init /\ [][Next]_vars

\* the session with the rest of its public interface in use
ApiNext ==
    \/ Next
    \/ MemRead
    \/ MemWrite
    \/ CallerSetAttr

ApiSpec == Init /\ [][ApiNext]_vars

\* the session with version_matches among its operations
VersionNext ==
    \/ Next
    \/ VersionMatches

VersionSpec == Init /\ [][VersionNext]_vars

CodecInit ==
    /\ HostInit
    /\ peerVersion = PROTOCOL_VERSION
    /\ cout = EmptyChip
    /\ \/ /\ cd \in Descriptors
          /\ cstage = "fresh"
          /\ cknown = <<>>
          /\ cvalues = <<>>
       \/ /\ cd = EmptyChip
          /\ cstage = "received"
          /\ cknown \in RawKnown
          /\ cvalues \in RawValues

CodecNext == Encode \/ Decode \/ DecodeReceived

CodecSpec == CodecInit /\ [][CodecNext]_vars


----------------------------------------------------------------------------
(* Properties *)

\* the operation's transport events, by position
EchoRead == log[2]
IsShort(e) == e.k = "r" /\ Len(e.d) < e.n
Handshake(echo, ack) == <<Wr(<<command>>), Rd(1, <<echo>>), Wr(<<ack>>)>>

\* C1: whenever the echo read differs from the command code sent, the
\* operation's transport events are exactly: write the code, read the echo,
\* write the deny byte 0x01; the operation has ended with the integrity error
\* (ConnectionError), nothing was returned, and the stored descriptor is the
\* one from before the call.
C1_HandshakeIntegrity ==
    (Len(log) >= 2 /\ Len(EchoRead.d) = 1 /\ EchoRead.d[1] # command)
        => /\ log = Handshake(EchoRead.d[1], 1)
           /\ outcome = "ConnectionError"
           /\ pc = "idle"
           /\ retval = None
           /\ chip = chip0

C1_Witness ==
    /\ op = "set_chip"
    /\ outcome = "ConnectionError"
    /\ EchoRead.d = <<2>>
    /\ chip # EmptyChip

\* C2: while a chip negotiation has not succeeded (it is running, or it
\* failed by echo mismatch, by timeout at the echo, the mask or the value
\* block, or otherwise), the stored descriptor is the one from before the call.
C2_FailedNegotiationPreserves ==
    (op = "set_chip" /\ outcome # "ok") => chip = chip0

C2_Witness ==
    /\ op = "set_chip"
    /\ outcome = "TimeoutError"
    /\ Len(log) = 7
    /\ Len(log[7].d) \in 1..6
    /\ chip # EmptyChip
    /\ FromBytes(knownBytes, <<0, 0, 0, 0, 0, 0, 0>>) # chip

\* C3: after a successful chip negotiation every field of the stored
\* descriptor is what the 4 + 7 bytes read from the bridge say: known exactly
\* when its mask byte is nonzero, with the value of its place in the value
\* block; nothing comes from the descriptor stored before or the one requested.
C3_NegotiationReplaces ==
    (op = "set_chip" /\ outcome = "ok")
        => LET k == log[6].d
               v == log[7].d
           IN  /\ chip.is_operational = (IF k[1] # 0 THEN <<v[1] # 0>> ELSE <<>>)
               /\ chip.size = (IF k[2] # 0
                                  THEN <<((v[2] * 256 + v[3]) * 256 + v[4]) * 256 + v[5]>>
                                  ELSE <<>>)
               /\ chip.is_nonvolatile = (IF k[3] # 0 THEN <<v[6] # 0>> ELSE <<>>)
               /\ chip.is_eeprom = (IF k[4] # 0 THEN <<v[7] # 0>> ELSE <<>>)

C3_Witness ==
    /\ op = "set_chip"
    /\ outcome = "ok"
    /\ chip0.is_operational # None
    /\ chip.is_operational = None
    /\ chip0.size # chip.size
    /\ req.is_operational # None

\* C4: whenever the echo read equals the command code sent, the operation's
\* first three transport events are: write the code, read the echo, write the
\* confirm byte 0x00; the handshake did not raise, and right after it the
\* operation is running at its next step.
C4_HandshakeSuccess ==
    (Len(log) >= 2 /\ EchoRead.d = <<command>>)
        => /\ Len(log) >= 3
           /\ SubSeq(log, 1, 3) = Handshake(command, 0)
           /\ outcome # "ConnectionError"
           /\ Len(log) = 3 => (outcome = "running" /\ pc = AfterCommand)

C4_Witness ==
    /\ Len(log) = 3
    /\ EchoRead.d = <<command>>
    /\ command = 1
    /\ pc = "send"

\* C5: whenever the read of the echo returned no byte, the operation has
\* ended with TimeoutError and its only transport events are the write of
\* the command code and that read: no confirm and no deny byte was written.
C5_HandshakeTimeout ==
    (Len(log) >= 2 /\ EchoRead.d = <<>>)
        => /\ log = <<Wr(<<command>>), Rd(1, <<>>)>>
           /\ outcome = "TimeoutError"
           /\ pc = "idle"

C5_Witness ==
    /\ op = "get_version"
    /\ outcome = "TimeoutError"
    /\ Len(log) = 2
    /\ tx # <<>>

\* C6: a read that got fewer bytes than it asked for (none included) is the
\* operation's last transport event, and the operation has ended with
\* TimeoutError: no version was returned and no descriptor installed from it.
C6_TimeoutPropagation ==
    \A i \in 1..Len(log) :
        IsShort(log[i])
            => /\ i = Len(log)
               /\ outcome = "TimeoutError"
               /\ pc = "idle"
               /\ retval = None
               /\ chip = chip0

C6_Witness ==
    /\ op = "get_version"
    /\ Len(log) = 4
    /\ log[4].n = 2
    /\ Len(log[4].d) = 1

\* C7: an operation re-invoked after it failed with TimeoutError behaves as
\* a fresh exchange: a retried get_version that returns, returns the bridge's
\* version, and a retried negotiation that succeeds installs the answer the
\* bridge sent last.
C7_RetryIsFresh ==
    (prev[1] = op /\ prev[2] = "TimeoutError" /\ outcome = "ok")
        => /\ op = "get_version" => retval = Some(peerVersion)
           /\ op = "set_chip" =>
                 /\ Len(peer.sent) = 11
                 /\ chip = FromBytes(SubSeq(peer.sent, 1, 4), SubSeq(peer.sent, 5, 11))

\* C8: during and after get_version, successful or failed, the stored
\* descriptor is the one from before the call.
C8_GetVersionKeepsChip ==
    op = "get_version" => chip = chip0

C8_Witness ==
    /\ op = "get_version"
    /\ outcome = "ok"
    /\ chip # EmptyChip

\* C9: decoding the known-mask and the value block of a descriptor gives a
\* descriptor with the same known fields and, for each known field, the same
\* value: a known False or a known 0 stays known, an unknown field unknown.
C9_CodecRoundTrip ==
    cstage = "decoded"
        => \A i \in 1..4 :
              LET f == MEMORY_CHIP_DATA_STRUCTURE[i]
              IN  /\ (cout[f] = None) <=> (cd[f] = None)
                  /\ cd[f] # None => cout[f] = cd[f]

C9_Witness ==
    /\ cstage = "decoded"
    /\ cd.is_operational = Some(FALSE)
    /\ cd.size = Some(0)
    /\ cd.is_nonvolatile = None
    /\ cout.is_operational = Some(FALSE)
    /\ cout.size = Some(0)

\* C10: once main has been left, by return or by an exception, the serial
\* connection its session opened is closed.
C10_ClosedOnExit ==
    pc \in {"main_returned", "main_raised"} => ~serialOpen


\* C11: a finished read or write has given its caller an explicit "not
\* supported" result, not a plain return, and has exchanged no byte on the
\* serial line.
C11_MemoryNotSupported ==
    (op \in {"read", "write"} /\ pc = "idle")
        => /\ outcome = "NotSupported"
           /\ log = <<>>


\* C15: the stored descriptor changes only in the step that completes a
\* successful chip negotiation; nothing a caller does with the descriptor it
\* got from the chip accessor changes a field of it.
C15_OnlyNegotiationChangesChip ==
    [][chip' # chip => (op' = "set_chip" /\ outcome = "running" /\ outcome' = "ok")]_vars


\* the steps of a call in progress
HostStep == CommandEcho \/ ReadVersion \/ SendChip \/ ReadKnown \/ ReadProperties

\* C12: a call of get_version or of the chip setter never waits forever (while
\* it runs, its next step can always be taken: a read returns or times out),
\* and once finished its outcome is success, the integrity error
\* (ConnectionError) or TimeoutError.
C12_Terminates ==
    op \in {"get_version", "set_chip"}
        => /\ pc # "idle" => ENABLED HostStep
           /\ pc = "idle" => outcome \in {"ok", "ConnectionError", "TimeoutError"}


\* C13: whenever the get_version inside version_matches got its 2 version
\* bytes, version_matches has returned without an error, and what it returned
\* is TRUE exactly when the version those bytes encode is 0.
C13_VersionMatches ==
    (op = "version_matches" /\ Len(log) = 4 /\ Len(log[4].d) = 2)
        => /\ outcome = "ok"
           /\ retval = <<log[4].d[1] * 256 + log[4].d[2] = 0>>

C13_Witness ==
    /\ op = "version_matches"
    /\ outcome = "ok"
    /\ log[4].d = <<0, 1>>
    /\ retval = Some(FALSE)


\* C14: the known-mask of a descriptor is 4 bytes in field order, 1 for a
\* field that is present (whatever its value) and 0 for an absent one; its
\* value block is 7 bytes: bool, the size as 4 bytes most significant first,
\* bool, bool, with 0 for every absent field. The descriptor {is_operational:
\* true, size: unknown, is_nonvolatile: true, is_eeprom: unknown} gives
\* [1,0,1,0] and [1,0,0,0,0,1,0].
C14_DescriptorEncoding ==
    LET bit(x) == IF x = Some(TRUE) THEN 1 ELSE 0
    IN  /\ cstage \in {"encoded", "decoded", "raised"}
            => /\ Len(cknown) = 4
               /\ \A i \in 1..4 :
                     cknown[i] = (IF cd[MEMORY_CHIP_DATA_STRUCTURE[i]] = None THEN 0 ELSE 1)
        /\ cstage \in {"encoded", "decoded"}
            => /\ Len(cvalues) = 7
               /\ cvalues[1] = bit(cd.is_operational)
               /\ \A i \in 2..5 : cvalues[i] \in 0..255
               /\ cvalues[2] < 128
               /\ ((cvalues[2] * 256 + cvalues[3]) * 256 + cvalues[4]) * 256 + cvalues[5]
                     = (IF cd.size = None THEN 0 ELSE cd.size[1])
               /\ cvalues[6] = bit(cd.is_nonvolatile)
               /\ cvalues[7] = bit(cd.is_eeprom)
               /\ cd = MemoryChip(Some(TRUE), None, Some(TRUE), None)
                     => (cknown = <<1, 0, 1, 0>> /\ cvalues = <<1, 0, 0, 0, 0, 1, 0>>)

C14_Witness ==
    /\ cstage = "encoded"
    /\ cd = MemoryChip(Some(TRUE), None, Some(TRUE), None)
    /\ cknown = <<1, 0, 1, 0>>
    /\ cvalues = <<1, 0, 0, 0, 0, 1, 0>>


\* C17: for every 4-byte mask and 7-byte value block received, each field of
\* the decoded descriptor is known exactly when its mask byte is nonzero, then
\* with the value its place in the value block decodes to, and unknown when
\* its mask byte is zero whatever the value block holds there.
C17_DecodeIgnoresPlaceholders ==
    cstage = "analyzed"
        => /\ cout.is_operational = (IF cknown[1] # 0 THEN <<cvalues[1] # 0>> ELSE <<>>)
           /\ cout.size =
                 (IF cknown[2] # 0
                     THEN <<((cvalues[2] * 256 + cvalues[3]) * 256 + cvalues[4]) * 256
                             + cvalues[5]>>
                     ELSE <<>>)
           /\ cout.is_nonvolatile = (IF cknown[3] # 0 THEN <<cvalues[6] # 0>> ELSE <<>>)
           /\ cout.is_eeprom = (IF cknown[4] # 0 THEN <<cvalues[7] # 0>> ELSE <<>>)

C17_Witness ==
    /\ cstage = "analyzed"
    /\ cknown = <<0, 255, 1, 0>>
    /\ cvalues = <<255, 1, 0, 255, 0, 0, 1>>
    /\ cout = MemoryChip(None, Some(16842496), Some(FALSE), None)


\* C16: the transport events of a successful chip negotiation are, in this
\* order and no others: write 0x01, read the 1-byte echo, write 0x00, write the
\* request's 4-byte known-mask, write the request's 7-byte value block, read 4
\* bytes, read 7 bytes; the 4 bytes of the first of these two reads are the
\* mask the installed descriptor was decoded with.
C16_NegotiationWireOrder ==
    (op = "set_chip" /\ outcome = "ok")
        => /\ Len(log) = 7
           /\ SubSeq(log, 1, 3) = <<Wr(<<1>>), Rd(1, <<1>>), Wr(<<0>>)>>
           /\ log[4] = Wr([i \in 1..4 |->
                             IF req[MEMORY_CHIP_DATA_STRUCTURE[i]] = None THEN 0 ELSE 1])
           /\ log[5].k = "w" /\ log[5].n = 7 /\ log[5].d = ToBytes(req)
           /\ log[6].k = "r" /\ log[6].n = 4 /\ Len(log[6].d) = 4
           /\ log[7].k = "r" /\ log[7].n = 7 /\ Len(log[7].d) = 7
           /\ \A i \in 1..4 :
                 (chip[MEMORY_CHIP_DATA_STRUCTURE[i]] # None) <=> (log[6].d[i] # 0)

C16_Witness ==
    /\ op = "set_chip"
    /\ outcome = "ok"
    /\ req = MemoryChip(Some(FALSE), Some(258), None, Some(FALSE))
    /\ log[4].d = <<1, 1, 0, 1>>
    /\ log[5].d = <<0, 0, 0, 1, 2, 0, 0>>
    /\ log[6].d = <<0, 2, 0, 1>>

\* C18: a get_version that returned has read, after the handshake, exactly 2
\* bytes b0 then b1 and returned 256*b0 + b1, a value in 0..65535.
C18_VersionBigEndian ==
    (op = "get_version" /\ outcome = "ok")
        => /\ Len(log) = 4
           /\ SubSeq(log, 1, 3) = <<Wr(<<0>>), Rd(1, <<0>>), Wr(<<0>>)>>
           /\ log[4].k = "r" /\ log[4].n = 2 /\ Len(log[4].d) = 2
           /\ retval = <<256 * log[4].d[1] + log[4].d[2]>>
           /\ retval[1] \in 0..65535

C18_Witness ==
    /\ op = "get_version"
    /\ outcome = "ok"
    /\ log[4].d = <<0, 1>>
    /\ retval = Some(1)
    /\ peerVersion = 1


\* C19: between operations, when every operation so far has succeeded, no
\* byte is left unread in either direction: nothing the bridge sent is still
\* on the line or in the host's input buffer, nothing the host wrote is still
\* waiting for the bridge, and the bridge is waiting for a command.
C19_StreamInSync ==
    (pc = "idle" /\ outcome = "ok" /\ prev[2] \in {"none", "ok"} /\ prev[3])
        => /\ rx = <<>>
           /\ wire = <<>>
           /\ tx = <<>>
           /\ peer.st = "command"

C19_Witness ==
    /\ pc = "idle"
    /\ nops = 2
    /\ op = "get_version"
    /\ outcome = "ok"
    /\ prev = <<"set_chip", "ok", TRUE>>
    /\ rx = <<>>
    /\ tx = <<>>

\* C20: a chip negotiation that has written the 4-byte known-mask has also
\* written the 7-byte value block, whatever the requested descriptor.
C20_PayloadWhole ==
    (op = "set_chip" /\ Len(log) >= 4)
        => /\ Len(log) >= 5
           /\ log[5].k = "w"
           /\ log[5].n = 7


====
